---- MODULE Spec2Model ----
(***************************************************************************)
(* A model of Start.cpp: class SimpleClass (type-trait gated overloads     *)
(* that print one line to std::cout) and main, which sets boolalpha and    *)
(* then makes 13 calls.                                                    *)
(*                                                                         *)
(* Text is a sequence of one-character strings, so that two lines are      *)
(* equal exactly when they are byte-identical.  std::cout is a record of   *)
(* its boolalpha format flag, the characters of the line being written     *)
(* and the lines already completed by endl.                                *)
(*                                                                         *)
(* Two kinds of run are modelled.  mode = "main" is the program: main's    *)
(* statements in the order written.  mode = "client" is any other caller   *)
(* of SimpleClass's public methods: up to MaxCalls statements, each a      *)
(* call of any method with any argument of ClientArgs, or the manipulator  *)
(* cout << std::boolalpha.                                                 *)
(***************************************************************************)
EXTENDS Integers, Sequences, FiniteSets, TLC

VARIABLES mode, pc, cout, status, exitCode, trace

vars == <<mode, pc, cout, status, exitCode, trace>>

\* Number of statements a client run executes at most.
MaxCalls == 2

-----------------------------------------------------------------------------
\* String literals of the source, as character sequences.

L_Is == <<"I","s"," ">>
L_AClass == <<" ","<","<"," ","a"," ","c","l","a","s","s",":"," ">>
L_NullWorks == <<"N","u","l","l"," ","W","o","r","k","s",","," ">>
L_Hello == <<"H","e","l","l","o",","," ">>
L_Goodbye == <<"G","o","o","d","b","y","e",","," ">>
L_IsClass == <<"I","s"," ","C","l","a","s","s",","," ">>
L_NotClass == <<"N","o","t"," ","C","l","a","s","s",","," ">>
L_IsNotClass == <<"I","s"," ","n","o","t"," ","C","l","a","s","s",","," ">>
L_AsArgIsClass == <<"A","s","A","r","g",":"," ","I","s"," ","C","l","a","s","s",","," ">>
L_AsArgIsNotClass == <<"A","s","A","r","g",":"," ","I","s"," ","N","o","t"," ","C","l","a","s","s",","," ">>

S_AString == <<"A"," ","S","t","r","i","n","g">>
S_Joe == <<"J","o","e">>
S_Constant == <<"C","o","n","s","t","a","n","t">>
S_SomeNull == <<"S","o","m","e"," ","N","u","l","l">>
S_Again == <<"A","g","a","i","n">>

\* The terminating zero character of a string literal's array.
NUL == "\\0"

-----------------------------------------------------------------------------
\* Types and argument values.

\* A type is its name, its primary type category (what the <type_traits>
\* predicates look at) and, for an array, its extent.
Type(name, category, extent) == [name |-> name, category |-> category, extent |-> extent]

T_string == Type("std::string", "class", 0)
T_chars(n) == Type("char[]", "array", n)
T_int == Type("int", "integral", 0)
T_bool == Type("bool", "integral", 0)

\* An argument: its deduced type T and its value.  A text value is held in
\* chars (a char array with its terminating NUL), an int or a bool
\* (0 / 1) in num.
Temp_string(s) == [T |-> T_string, chars |-> s, num |-> 0]
Literal(s) == [T |-> T_chars(Len(s) + 1), chars |-> Append(s, NUL), num |-> 0]
IntArg(n) == [T |-> T_int, chars |-> <<>>, num |-> n]
BoolArg(b) == [T |-> T_bool, chars |-> <<>>, num |-> IF b THEN 1 ELSE 0]

\* main's statements after cout << std::boolalpha, in the order written.
Stmt(m, a, x) == [method |-> m, arg |-> a, extra |-> x]

\* main with hello("Again") moved after the other calls.
MainCalls_reordered ==
    << Stmt("amIAClass", Temp_string(S_AString), "none"),
       Stmt("amIAClass", Literal(S_Constant), "none"),
       Stmt("amIAClass2", Literal(S_Constant), "none"),
       Stmt("nullExample", Literal(S_SomeNull), "none"),
       Stmt("nullExample2", Literal(S_Again), "none"),
       Stmt("hello", Temp_string(S_Joe), "none"),
       Stmt("cleaner", Temp_string(S_Joe), "none"),
       Stmt("cleaner", Literal(S_Again), "none"),
       Stmt("another", Temp_string(S_Joe), "none"),
       Stmt("another", Literal(S_Again), "none"),
       Stmt("asArgument", Temp_string(S_Joe), "nullptr"),
       Stmt("asArgument", Literal(S_Again), "none"),
       Stmt("hello", Literal(S_Again), "none") >>

MainCalls ==
    << Stmt("amIAClass", Temp_string(S_AString), "none"),
       Stmt("amIAClass", Literal(S_Constant), "none"),
       Stmt("amIAClass2", Literal(S_Constant), "none"),
       Stmt("nullExample", Literal(S_SomeNull), "none"),
       Stmt("nullExample2", Literal(S_Again), "none"),
       Stmt("hello", Temp_string(S_Joe), "none"),
       Stmt("hello", Literal(S_Again), "none"),
       Stmt("cleaner", Temp_string(S_Joe), "none"),
       Stmt("cleaner", Literal(S_Again), "none"),
       Stmt("another", Temp_string(S_Joe), "none"),
       Stmt("another", Literal(S_Again), "none"),
       Stmt("asArgument", Temp_string(S_Joe), "nullptr"),
       Stmt("asArgument", Literal(S_Again), "none") >>

\* The arguments a client run draws from: a class type, a char array, and
\* two scalar types (bool is the one whose text depends on boolalpha).
ClientArgs == {Temp_string(S_Joe), Literal(S_Again), BoolArg(TRUE), IntArg(-7)}

Args == ClientArgs \cup {MainCalls[i].arg : i \in 1..Len(MainCalls)}

Types == {a.T : a \in Args}

-----------------------------------------------------------------------------
\* std::cout and the insertions the methods use.

Cout0 == [boolalpha |-> FALSE, buf |-> <<>>, lines |-> <<>>]

\* The manipulator left out.
boolalpha_noop(os) == os

\* cout << std::boolalpha
boolalpha(os) == [os EXCEPT !.boolalpha = TRUE]

\* os << "literal", os << std::string
put_chars(os, s) == [os EXCEPT !.buf = @ \o s]

\* os << const char*: the characters before the first NUL.
RECURSIVE UpToNul(_)
UpToNul(s) ==
    IF s = <<>> \/ Head(s) = NUL THEN <<>> ELSE <<Head(s)>> \o UpToNul(Tail(s))

put_cstr(os, s) == put_chars(os, UpToNul(s))

\* os << int: decimal, with a minus sign when negative.
DigitChar(d) == <<"0","1","2","3","4","5","6","7","8","9">>[d + 1]

RECURSIVE Dec(_)
Dec(n) == IF n < 10 THEN <<DigitChar(n)>> ELSE Dec(n \div 10) \o <<DigitChar(n % 10)>>

put_int(os, n) == put_chars(os, IF n < 0 THEN <<"-">> \o Dec(-n) ELSE Dec(n))

\* os << bool: the word under boolalpha, otherwise 1 or 0.
put_bool(os, b) ==
    IF os.boolalpha
    THEN put_chars(os, IF b THEN <<"t","r","u","e">> ELSE <<"f","a","l","s","e">>)
    ELSE put_chars(os, IF b THEN <<"1">> ELSE <<"0">>)

\* os << value, for value of type const T &: the overload of operator<<
\* that T selects.
put_value(os, a) ==
    CASE a.T.name = "std::string" -> put_chars(os, a.chars)
      [] a.T.name = "char[]" -> put_cstr(os, a.chars)
      [] a.T.name = "bool" -> put_bool(os, a.num # 0)
      [] a.T.name = "int" -> put_int(os, a.num)

\* os << endl: ends the line.
endl(os) == [os EXCEPT !.lines = Append(@, os.buf), !.buf = <<>>]

-----------------------------------------------------------------------------
\* <type_traits> as the methods use it.

\* std::is_class<T>: a struct with a ::value member.
is_class(T) == [value |-> T.category = "class"]

\* std::is_class_v<T>
is_class_v(T) == is_class(T).value

\* std::enable_if_t<B, Ty>: the type Ty when B holds; otherwise there is
\* no such type and the substitution fails.  The set of types it names.
enable_if_t(B, Ty) == IF B THEN {Ty} ELSE {}

-----------------------------------------------------------------------------
\* SimpleClass

\* Prints the negation of the trait.
amIAClass_negated(os, a) ==
    endl(put_bool(put_chars(put_value(put_chars(os, L_Is), a), L_AClass), ~is_class(a.T).value))

amIAClass(os, a) ==
    endl(put_bool(put_chars(put_value(put_chars(os, L_Is), a), L_AClass), is_class(a.T).value))

\* Tests another trait (is_compound: classes and arrays alike).
amIAClass2_compound(os, a) ==
    endl(put_bool(put_chars(put_value(put_chars(os, L_Is), a), L_AClass),
                  a.T.category \in {"class", "array"}))

\* Sets boolalpha itself, just before the bool.
amIAClass2_setsflag(os, a) ==
    endl(put_bool(boolalpha(put_chars(put_value(put_chars(os, L_Is), a), L_AClass)), is_class_v(a.T)))

amIAClass2(os, a) ==
    endl(put_bool(put_chars(put_value(put_chars(os, L_Is), a), L_AClass), is_class_v(a.T)))

nullExample(os, a) == endl(put_value(put_chars(os, L_NullWorks), a))

nullExample2(os, a) == endl(put_value(put_chars(os, L_NullWorks), a))

IsClass(T) == enable_if_t(is_class_v(T), "std::nullptr_t")

IsNotClass(T) == enable_if_t(~is_class_v(T), "std::nullptr_t")

IsClassV(T) == enable_if_t(is_class_v(T), "void")

\* The negation lost.
IsNotClassV_ungated(T) == enable_if_t(is_class_v(T), "void")

IsNotClassV(T) == enable_if_t(~is_class_v(T), "void")

\* The negation on the first overload instead of the second.
hello_gates_swapped(T) ==
    << enable_if_t(~is_class_v(T), "std::nullptr_t"),
       enable_if_t(is_class_v(T), "std::nullptr_t") >>

\* The gate of each of a method's two overloads, in the order declared.
hello_gates(T) ==
    << enable_if_t(is_class_v(T), "std::nullptr_t"),
       enable_if_t(~is_class_v(T), "std::nullptr_t") >>

cleaner_gates(T) == << IsClass(T), IsNotClass(T) >>

another_gates(T) == << IsClassV(T), IsNotClassV(T) >>

\* The two aliases exchanged.
asArgument_gates_swapped(T) == << IsNotClass(T), IsClass(T) >>

asArgument_gates(T) == << IsClass(T), IsNotClass(T) >>

\* The overloads that survive substitution for a call: the gate names a
\* type, and an explicit extra argument nullptr converts to it.
Viable(gates, x) ==
    {k \in 1..Len(gates) : gates[k] # {} /\ (x = "nullptr" => "std::nullptr_t" \in gates[k])}

\* Overload resolution: the one viable overload; 0 when there is none or
\* more than one (the call is ill-formed).
Resolve(viable) == IF Cardinality(viable) = 1 THEN CHOOSE k \in viable : TRUE ELSE 0

\* The two labels exchanged.
hello_labels_swapped(os, a, k) ==
    IF k = 1 THEN endl(put_value(put_chars(os, L_Goodbye), a))
             ELSE endl(put_value(put_chars(os, L_Hello), a))

\* The bodies of the overloads, as declared.
hello(os, a, k) ==
    IF k = 1 THEN endl(put_value(put_chars(os, L_Hello), a))
             ELSE endl(put_value(put_chars(os, L_Goodbye), a))

\* The non-class overload does not end its line.
cleaner_noendl(os, a, k) ==
    IF k = 1 THEN endl(put_value(put_chars(os, L_IsClass), a))
             ELSE put_value(put_chars(os, L_NotClass), a)

cleaner(os, a, k) ==
    IF k = 1 THEN endl(put_value(put_chars(os, L_IsClass), a))
             ELSE endl(put_value(put_chars(os, L_NotClass), a))

another(os, a, k) ==
    IF k = 1 THEN endl(put_value(put_chars(os, L_IsClass), a))
             ELSE endl(put_value(put_chars(os, L_IsNotClass), a))

asArgument(os, a, k) ==
    IF k = 1 THEN endl(put_value(put_chars(os, L_AsArgIsClass), a))
             ELSE endl(put_value(put_chars(os, L_AsArgIsNotClass), a))

-----------------------------------------------------------------------------
\* Runs.

\* An event of the run, kept for the properties: a call with the overload
\* chosen, the format flag it found and the lines it wrote, or the
\* manipulator.
CallEvent(m, a, x, k, os, os2) ==
    [kind |-> "call", method |-> m, arg |-> a, extra |-> x, overload |-> k,
     fmt |-> os.boolalpha,
     lines |-> SubSeq(os2.lines, Len(os.lines) + 1, Len(os2.lines))]

ManipEvent(os) ==
    [kind |-> "manip", method |-> "boolalpha", arg |-> BoolArg(TRUE), extra |-> "none",
     overload |-> 0, fmt |-> os.boolalpha, lines |-> <<>>]

\* The next statement is the call m(a) with extra argument x.
AtCall(m, a, x) ==
    /\ status = "running"
    /\ \/ /\ mode = "main"
          /\ pc \in 1..Len(MainCalls)
          /\ MainCalls[pc] = Stmt(m, a, x)
       \/ /\ mode = "client"
          /\ pc \in 1..MaxCalls
          /\ a \in ClientArgs

\* The call is made with overload k and leaves the stream as os2; k = 0
\* is a call that no build accepts.
Call(m, a, x, k, os2) ==
    /\ IF k = 0
       THEN /\ status' = "ill-formed"
            /\ UNCHANGED <<cout, trace>>
       ELSE /\ cout' = os2
            /\ trace' = Append(trace, CallEvent(m, a, x, k, cout, os2))
            /\ UNCHANGED status
    /\ pc' = pc + 1
    /\ UNCHANGED <<mode, exitCode>>

Init ==
    /\ mode \in {"main", "client"}
    /\ pc = IF mode = "main" THEN 0 ELSE 1
    /\ cout = Cout0
    /\ status = "running"
    /\ exitCode = -1
    /\ trace = <<>>

\* cout << std::boolalpha;
Stmt_boolalpha ==
    /\ status = "running"
    /\ \/ mode = "main" /\ pc = 0
       \/ mode = "client" /\ pc \in 1..MaxCalls
    /\ cout' = boolalpha(cout)
    /\ trace' = Append(trace, ManipEvent(cout))
    /\ pc' = pc + 1
    /\ UNCHANGED <<mode, status, exitCode>>

Stmt_amIAClass ==
    \E a \in Args :
        /\ AtCall("amIAClass", a, "none")
        /\ Call("amIAClass", a, "none", 1, amIAClass(cout, a))

Stmt_amIAClass2 ==
    \E a \in Args :
        /\ AtCall("amIAClass2", a, "none")
        /\ Call("amIAClass2", a, "none", 1, amIAClass2(cout, a))

Stmt_nullExample ==
    \E a \in Args :
        /\ AtCall("nullExample", a, "none")
        /\ Call("nullExample", a, "none", 1, nullExample(cout, a))

Stmt_nullExample2 ==
    \E a \in Args :
        /\ AtCall("nullExample2", a, "none")
        /\ Call("nullExample2", a, "none", 1, nullExample2(cout, a))

Stmt_hello ==
    \E a \in Args :
        /\ AtCall("hello", a, "none")
        /\ LET k == Resolve(Viable(hello_gates(a.T), "none"))
           IN Call("hello", a, "none", k, hello(cout, a, k))

Stmt_cleaner ==
    \E a \in Args :
        /\ AtCall("cleaner", a, "none")
        /\ LET k == Resolve(Viable(cleaner_gates(a.T), "none"))
           IN Call("cleaner", a, "none", k, cleaner(cout, a, k))

Stmt_another ==
    \E a \in Args :
        /\ AtCall("another", a, "none")
        /\ LET k == Resolve(Viable(another_gates(a.T), "none"))
           IN Call("another", a, "none", k, another(cout, a, k))

Stmt_asArgument ==
    \E a \in Args, x \in {"none", "nullptr"} :
        /\ AtCall("asArgument", a, x)
        /\ LET k == Resolve(Viable(asArgument_gates(a.T), x))
           IN Call("asArgument", a, x, k, asArgument(cout, a, k))

\* return 0;
main_return == 0

Stmt_return ==
    /\ status = "running"
    /\ \/ mode = "main" /\ pc = Len(MainCalls) + 1
       \/ mode = "client" /\ pc >= 1
    /\ status' = "exited"
    /\ exitCode' = main_return
    /\ UNCHANGED <<mode, pc, cout, trace>>

Next ==
    \/ Stmt_boolalpha
    \/ Stmt_amIAClass
    \/ Stmt_amIAClass2
    \/ Stmt_nullExample
    \/ Stmt_nullExample2
    \/ Stmt_hello
    \/ Stmt_cleaner
    \/ Stmt_another
    \/ Stmt_asArgument
    \/ Stmt_return

Spec == Init /\ [][Next]_vars

\* Nothing suspends the single thread: a statement that can run does.
FairSpec == Spec /\ WF_vars(Next)

TypeOK ==
    /\ mode \in {"main", "client"}
    /\ pc \in 0..(Len(MainCalls) + 1)
    /\ status \in {"running", "exited", "ill-formed"}
    /\ exitCode \in {-1, 0}
    /\ cout.buf = <<>>

-----------------------------------------------------------------------------
\* Vocabulary of the properties.

HasPrefix(s, p) == Len(s) >= Len(p) /\ SubSeq(s, 1, Len(p)) = p

HasSuffix(s, p) == Len(s) >= Len(p) /\ SubSeq(s, Len(s) - Len(p) + 1, Len(s)) = p

\* The text of a line after its label, i.e. after the first ", ".
RECURSIVE AfterLabel(_)
AfterLabel(s) ==
    IF Len(s) < 2 THEN <<>>
    ELSE IF s[1] = "," /\ s[2] = " " THEN SubSeq(s, 3, Len(s))
    ELSE AfterLabel(Tail(s))

\* The indices of the calls in the trace, and of the calls of method m.
CallIdx == {i \in DOMAIN trace : trace[i].kind = "call"}

CallsOf(m) == {i \in CallIdx : trace[i].method = m}

\* No manipulator runs between events i and j.
OnlyCallsBetween(i, j) == \A n \in (i + 1)..(j - 1) : trace[n].kind = "call"

Gated == {"hello", "cleaner", "another", "asArgument"}

ClassLabel(m) ==
    CASE m = "hello" -> L_Hello
      [] m = "cleaner" -> L_IsClass
      [] m = "another" -> L_IsClass
      [] m = "asArgument" -> L_AsArgIsClass

NonClassLabel(m) ==
    CASE m = "hello" -> L_Goodbye
      [] m = "cleaner" -> L_NotClass
      [] m = "another" -> L_IsNotClass
      [] m = "asArgument" -> L_AsArgIsNotClass

ClassType(T) == T.category = "class"

W_true == <<"t","r","u","e">>
W_false == <<"f","a","l","s","e">>

HelloJoe == <<"H","e","l","l","o",","," ","J","o","e">>
GoodbyeAgain == <<"G","o","o","d","b","y","e",","," ","A","g","a","i","n">>
IsAStringTrue == <<"I","s"," ","A"," ","S","t","r","i","n","g"," ","<","<"," ","a"," ","c","l","a","s","s",":"," ","t","r","u","e">>
IsConstantFalse == <<"I","s"," ","C","o","n","s","t","a","n","t"," ","<","<"," ","a"," ","c","l","a","s","s",":"," ","f","a","l","s","e">>

\* "<Label>, <value>": a non-empty label, ", ", a non-empty value.
LabelValueForm(l) ==
    \E k \in 2..(Len(l) - 2) : l[k] = "," /\ l[k + 1] = " "

\* "Is <value> << a class: <true|false>"
IsAClassForm(l) ==
    /\ HasPrefix(l, L_Is)
    /\ \/ HasSuffix(l, L_AClass \o W_true)
       \/ HasSuffix(l, L_AClass \o W_false)
    /\ Len(l) > Len(L_Is) + Len(L_AClass) + 4

-----------------------------------------------------------------------------
\* C1: every call of a gated dispatcher (hello, cleaner, another,
\* asArgument) is accepted and writes exactly one line; that line carries
\* the class-branch label if and only if the argument's type is a class
\* type, and the non-class-branch label if and only if it is not.
C1_OneBranchLine ==
    /\ status # "ill-formed"
    /\ \A i \in CallIdx :
          trace[i].method \in Gated =>
             LET e == trace[i]
             IN /\ Len(e.lines) = 1
                /\ HasPrefix(e.lines[1], ClassLabel(e.method)) <=> ClassType(e.arg.T)
                /\ HasPrefix(e.lines[1], NonClassLabel(e.method)) <=> ~ClassType(e.arg.T)

\* Every dispatcher has been called with a class argument and with a
\* non-class argument.
C1_Witness ==
    \A m \in Gated :
        /\ \E i \in CallsOf(m) : ClassType(trace[i].arg.T)
        /\ \E i \in CallsOf(m) : ~ClassType(trace[i].arg.T)

\* C2 as stated: any two dispatcher forms called with the same argument
\* under the same format state write byte-identical lines.
C2_Original ==
    \A i, j \in CallIdx :
        (/\ trace[i].method \in Gated
         /\ trace[j].method \in Gated
         /\ trace[i].arg = trace[j].arg
         /\ trace[i].fmt = trace[j].fmt)
        => trace[i].lines = trace[j].lines

\* C2 amended: any two dispatcher forms called with the same argument under
\* the same format state take the same branch (the overload of the same
\* position) and write one line each whose text after the label is
\* byte-identical; the labels are each form's own.
C2_SameBranchSameValue ==
    \A i, j \in CallIdx :
        (/\ trace[i].method \in Gated
         /\ trace[j].method \in Gated
         /\ trace[i].arg = trace[j].arg
         /\ trace[i].fmt = trace[j].fmt)
        => /\ trace[i].overload = trace[j].overload
           /\ Len(trace[i].lines) = 1
           /\ Len(trace[j].lines) = 1
           /\ AfterLabel(trace[i].lines[1]) = AfterLabel(trace[j].lines[1])
           /\ HasPrefix(trace[i].lines[1], ClassLabel(trace[i].method))
                <=> HasPrefix(trace[j].lines[1], ClassLabel(trace[j].method))

\* Two different forms have been called with the same argument.
C2_Witness ==
    \E i, j \in CallIdx :
        /\ trace[i].method = "hello"
        /\ trace[j].method = "asArgument"
        /\ trace[i].arg = trace[j].arg
        /\ trace[i].fmt = trace[j].fmt
        /\ trace[i].lines # trace[j].lines

\* C3: hello with the std::string "Joe" writes exactly "Hello, Joe", hello
\* with the literal "Again" writes exactly "Goodbye, Again", and in the
\* program's output "Hello, Joe" comes before "Goodbye, Again".
C3_HelloJoeGoodbyeAgain ==
    /\ \A i \in CallsOf("hello") :
          /\ trace[i].arg = Temp_string(S_Joe) => trace[i].lines = <<HelloJoe>>
          /\ trace[i].arg = Literal(S_Again) => trace[i].lines = <<GoodbyeAgain>>
    /\ mode = "main" =>
          /\ \A i, j \in DOMAIN cout.lines :
                cout.lines[i] = HelloJoe /\ cout.lines[j] = GoodbyeAgain => i < j
          /\ status = "exited" =>
                \E i, j \in DOMAIN cout.lines :
                    cout.lines[i] = HelloJoe /\ cout.lines[j] = GoodbyeAgain

\* The program has written both lines.
C3_Witness ==
    /\ mode = "main"
    /\ \E i, j \in DOMAIN cout.lines :
          i < j /\ cout.lines[i] = HelloJoe /\ cout.lines[j] = GoodbyeAgain

\* C4: with boolalpha set, as in the program, amIAClass writes one line
\* whose classification field is "true" if and only if the argument's type
\* is a class type and "false" if and only if it is not; for the
\* std::string "A String" the line reports true, for the literal "Constant"
\* it reports false.
C4_AmIAClass ==
    \A i \in CallsOf("amIAClass") :
        trace[i].fmt =>
            LET e == trace[i]
            IN /\ Len(e.lines) = 1
               /\ HasSuffix(e.lines[1], L_AClass \o W_true) <=> ClassType(e.arg.T)
               /\ HasSuffix(e.lines[1], L_AClass \o W_false) <=> ~ClassType(e.arg.T)
               /\ e.arg = Temp_string(S_AString) => e.lines[1] = IsAStringTrue
               /\ e.arg = Literal(S_Constant) => e.lines[1] = IsConstantFalse

\* The program has made both of its amIAClass calls.
C4_Witness ==
    /\ \E i \in CallsOf("amIAClass") : trace[i].arg = Temp_string(S_AString) /\ trace[i].fmt
    /\ \E i \in CallsOf("amIAClass") : trace[i].arg = Literal(S_Constant) /\ trace[i].fmt

\* C5: in the program, boolalpha is set from the first call on, and every
\* line written has the form "<Label>, <value>" or
\* "Is <value> << a class: <true|false>" with the boolean as a word.
C5_LineForms ==
    mode = "main" =>
        /\ pc >= 1 => cout.boolalpha
        /\ \A n \in DOMAIN cout.lines :
              LabelValueForm(cout.lines[n]) \/ IsAClassForm(cout.lines[n])

\* The program has written lines of both forms.
C5_Witness ==
    /\ mode = "main"
    /\ \E n \in DOMAIN cout.lines : IsAClassForm(cout.lines[n])
    /\ \E n \in DOMAIN cout.lines :
          LabelValueForm(cout.lines[n]) /\ ~IsAClassForm(cout.lines[n])

\* C6: for every argument type exactly one of IsClass / IsNotClass and
\* exactly one of IsClassV / IsNotClassV names a type, and no call of any
\* run is ill-formed (no viable overload, or two).
C6_ExactlyOneGate ==
    /\ status # "ill-formed"
    /\ \A i \in CallIdx :
          LET T == trace[i].arg.T
          IN /\ (IsClass(T) # {}) # (IsNotClass(T) # {})
             /\ (IsClassV(T) # {}) # (IsNotClassV(T) # {})

\* Gated calls with a class and with a non-class argument have run.
C6_Witness ==
    /\ status = "running"
    /\ \E i \in CallsOf("another") : ClassType(trace[i].arg.T)
    /\ \E i \in CallsOf("cleaner") : ~ClassType(trace[i].arg.T)

\* What the call of event e writes to the stream os.
Body(e, os) ==
    CASE e.method = "amIAClass" -> amIAClass(os, e.arg)
      [] e.method = "amIAClass2" -> amIAClass2(os, e.arg)
      [] e.method = "nullExample" -> nullExample(os, e.arg)
      [] e.method = "nullExample2" -> nullExample2(os, e.arg)
      [] e.method = "hello" -> hello(os, e.arg, e.overload)
      [] e.method = "cleaner" -> cleaner(os, e.arg, e.overload)
      [] e.method = "another" -> another(os, e.arg, e.overload)
      [] e.method = "asArgument" -> asArgument(os, e.arg, e.overload)

\* A stream no SimpleClass call has written to, with the format flag as
\* the manipulators before event j leave it.
FreshStream(j) ==
    IF \E n \in 1..(j - 1) : trace[n].kind = "manip" THEN boolalpha(Cout0) ELSE Cout0

\* C7: a call's line does not depend on the SimpleClass calls before it:
\* after any preceding calls it writes what it writes as the first call on
\* a fresh stream, and two calls of the same method with the same
\* argument, with only SimpleClass calls between them, write the same line.
C7_Independent ==
    /\ \A j \in CallIdx : trace[j].lines = Body(trace[j], FreshStream(j)).lines
    /\ \A i, j \in CallIdx :
          (/\ i < j
           /\ trace[i].method = trace[j].method
           /\ trace[i].arg = trace[j].arg
           /\ trace[i].extra = trace[j].extra
           /\ OnlyCallsBetween(i, j))
          => trace[i].lines = trace[j].lines

\* A call with a bool argument was made right after a call of another
\* method, with no manipulator before either.
C7_Witness ==
    \E j \in CallIdx :
        /\ j - 1 \in CallIdx
        /\ trace[j - 1].method # trace[j].method
        /\ trace[j].arg = BoolArg(TRUE)
        /\ ~trace[j].fmt

\* C8: a dispatcher called twice in a row with the same argument writes
\* two identical lines.
C8_Idempotent ==
    \A i \in CallIdx :
        (/\ i + 1 \in CallIdx
         /\ trace[i].method \in Gated
         /\ trace[i + 1].method = trace[i].method
         /\ trace[i + 1].arg = trace[i].arg)
        => /\ Len(trace[i].lines) = 1
           /\ trace[i + 1].lines = trace[i].lines

\* hello was called twice in a row with the same bool argument.
C8_Witness ==
    \E i \in CallsOf("hello") :
        /\ i + 1 \in CallsOf("hello")
        /\ trace[i].arg = BoolArg(TRUE)
        /\ trace[i + 1].arg = BoolArg(TRUE)

\* The program has returned 0 having made its 13 calls, once each, in the
\* order written, with one line per call.
ExpectedMethods ==
    << "amIAClass", "amIAClass", "amIAClass2", "nullExample", "nullExample2",
       "hello", "hello", "cleaner", "cleaner", "another", "another",
       "asArgument", "asArgument" >>

ExpectedValues ==
    << S_AString, S_Constant, S_Constant, S_SomeNull, S_Again, S_Joe, S_Again,
       S_Joe, S_Again, S_Joe, S_Again, S_Joe, S_Again >>

MainDone ==
    /\ status = "exited"
    /\ exitCode = 0
    /\ Len(trace) = 14
    /\ Len(cout.lines) = 13
    /\ \A n \in 1..13 :
          /\ trace[n + 1].kind = "call"
          /\ trace[n + 1].method = ExpectedMethods[n]
          /\ trace[n + 1].lines = <<cout.lines[n]>>
          /\ HasSuffix(AfterLabel(cout.lines[n]), ExpectedValues[n])
             \/ HasPrefix(cout.lines[n], L_Is \o ExpectedValues[n])

\* C9: the program always terminates, with exit code 0, after making each
\* of main's 13 calls exactly once, its output lines in the order of the
\* calls, one line per call.
C9_Terminates == (mode = "main") ~> MainDone

C9_Witness == mode = "main" /\ MainDone

\* C10: amIAClass and amIAClass2, called with the same argument under the
\* same format state, write identical lines.
C10_SameAsV ==
    \A i \in CallsOf("amIAClass"), j \in CallsOf("amIAClass2") :
        (trace[i].arg = trace[j].arg /\ trace[i].fmt = trace[j].fmt)
        => trace[i].lines = trace[j].lines

\* Both have been called with the same class argument.
C10_Witness ==
    \E i \in CallsOf("amIAClass"), j \in CallsOf("amIAClass2") :
        /\ trace[i].arg = trace[j].arg
        /\ trace[i].fmt = trace[j].fmt
        /\ ClassType(trace[i].arg.T)

====
